---- MODULE Spec2Model ----
(***************************************************************************)
(* Model of the notification dispatcher in asy.py and of the asynchronous  *)
(* session in postgres_access.py.                                          *)
(*                                                                         *)
(* One asyncio event loop runs one listener task (catch_notify), one       *)
(* worker task per connection (worker) and the stop tasks created by the   *)
(* signal handlers.  A task runs from one await to the next without        *)
(* interruption, so every action below is one such step, or one callback   *)
(* of the loop.                                                            *)
(*                                                                         *)
(* Task identities: 0 is the listener, 1..nworkers are the workers, and    *)
(* -k is the k-th stop task created by a signal.  Notifications are        *)
(* identified by their arrival number 1, 2, 3, ...                         *)
(***************************************************************************)
EXTENDS Integers, Sequences, FiniteSets, TLC

\* ------------------------------------------------------------------ bounds
\* asy.py creates 10 events, connections and workers; the model checks a
\* smaller pool.
NumWorkers == 2
\* notifications the database delivers in one run
MaxNotifs == 4
\* notifications returned by one get_notifications call
MaxBatch == 2
\* termination signals delivered in one run
MaxSignals == 2

VARIABLES
    nworkers,        \* number of workers / events / worker connections
    loop_running,    \* loop.run_forever() has not been ended by loop.stop()
    wpc,             \* worker -> where the worker task is suspended
    lpc,             \* where the listener task is suspended
    mc,              \* task -> a cancellation is pending (Task._must_cancel)
    ev_set,          \* worker -> evs[i].is_set()
    ev_data,         \* worker -> evs[i].data (0: never assigned)
    deferred_tasks,  \* the module-level list deferred_tasks
    reader,          \* connection -> a reader callback is registered
    db_ev,           \* connection -> the session's completion event self.ev
    pending,         \* connection -> statements submitted, result not read
    loop_errors,     \* connections whose callback raised into the loop
    nextId,          \* arrival number of the next notification
    executed,        \* notifications whose execute completed, in order
    co,              \* signal -> state of the stop() coroutine object
    stasks,          \* the stop tasks created so far, in creation order
    env_pg_uri,      \* the environment defines PG_URI
    env_workers_num, \* the environment's WORKERS_NUM
    exit_code,       \* exit status of the process, NoExit while it lives
    conns,           \* the connections opened by connect()
    spawned,         \* the tasks passed to ensure_future at startup
    used_by,         \* connection -> tasks that have used it
    blocked,         \* connection whose select() blocks the loop thread
    result,          \* connection -> the session's self.result
    ret              \* task -> value its last awaited execute returned

vars == <<nworkers, loop_running, wpc, lpc, mc, ev_set, ev_data,
          deferred_tasks, reader, db_ev, pending, loop_errors, nextId,
          executed, co, stasks, env_pg_uri, env_workers_num, exit_code,
          conns, spawned, used_by, blocked, result, ret>>

Signals == {"SIGINT", "SIGTERM"}
Listener == 0
Workers == 1..nworkers
Conns == 0..nworkers

Range(s) == {s[i] : i \in DOMAIN s}
Count(s, x) == Cardinality({i \in DOMAIN s : s[i] = x})

\* ------------------------------------------------------- catch_notify body
\* for ev in evs: if not ev.is_set() -- the first event that is clear, or 0
\* when the inner for loop runs to its else branch.
IdleEvAny(es) == 1
IdleEv(es) ==
    IF \E w \in DOMAIN es : ~es[w]
    THEN CHOOSE w \in DOMAIN es : ~es[w] /\ \A v \in DOMAIN es : v < w => es[v]
    ELSE 0

\* deferred_tasks += notifications
DeferDrop(df, ns) == df
Defer(df, ns) == df \o ns

\* for n in notifications: ... -- the state after notifications i..Len(ns)
\* have been handled, starting from events (es, ed) and backlog df.
RECURSIVE Dispatch(_, _, _, _, _)
Dispatch(ns, i, es, ed, df) ==
    IF i > Len(ns) THEN [set |-> es, data |-> ed, deferred |-> df]
    ELSE LET w == IdleEv(es) IN
         IF w # 0
         THEN Dispatch(ns, i + 1, [es EXCEPT ![w] = TRUE],
                       [ed EXCEPT ![w] = ns[i]], df)
         ELSE Dispatch(ns, i + 1, es, ed, Defer(df, ns))

\* the batch get_notifications returns: k notifications in arrival order
Batch(first, k) == [i \in 1..k |-> first + i - 1]

\* -------------------------------------------------------------- worker body
\* deferred_tasks.pop(0), IndexError ignored
Pop0(df) == IF df = <<>> THEN df ELSE Tail(df)

\* __exit__ is "pass": leaving the with block never closes the connection
conn_closed(c) == FALSE

\* ------------------------------------------------------------- task states
WTerminal(w) == wpc[w] \in {"cancelled", "failed"}
LTerminal == lpc \in {"cancelled", "failed"}
STerminal(k) == stasks[k].st \in {"done", "failed", "cancelled"}
Terminal(t) ==
    IF t = 0 THEN LTerminal
    ELSE IF t > 0 THEN WTerminal(t)
    ELSE STerminal(-t)

AllTasks == Conns \cup {-k : k \in 1..Len(stasks)}

\* exit_code while the process is alive, blocked while no select() is pending
NoExit == -1
NoConn == -1

\* the values WORKERS_NUM can have in the environment
WorkersNumValues ==
    {[kind |-> "unset"], [kind |-> "text"],
     [kind |-> "int", val |-> 1], [kind |-> "int", val |-> 2]}

\* worker(evs[i], workers_conns[i]): the connection handed to worker w
WorkerConnListener(w) == 0
WorkerConn(w) == w

\* pg_uri is None
PgUriMissingNever == FALSE
PgUriMissing == ~env_pg_uri

\* retrieve_method = 'fetchall' if result else None
RetrieveMethod(want_rows) == IF want_rows THEN "fetchall" ELSE "None"
\* self.result = cursor.rowcount, or getattr(cursor, method)()
Retrieve(method) == IF method = "None" THEN "rowcount" ELSE "rows"
\* the worker calls execute(..., result=True); listen() submits LISTEN
\* with the default result=False
WantRows(c) == c # Listener
\* execute_async ends without a return statement: awaiting it yields None,
\* whatever self.result r holds
ExecuteAsyncReturn(r) == "None"

\* watch(): self.__loop.add_reader(fd, self.__cursor_retrieve_async, ...)
AddReaderNot(rd, c) == rd
AddReader(rd, c) == [rd EXCEPT ![c] = TRUE]
\* self.__loop.remove_reader(self.__conn)
RemoveReaderNot(rd, c) == rd
RemoveReader(rd, c) == [rd EXCEPT ![c] = FALSE]
\* self.ev.set()
SetEventNot(ev, c) == ev
SetEvent(ev, c) == [ev EXCEPT ![c] = TRUE]

\* the state before the module body runs, with n workers in the source
Boot(n) ==
    /\ nworkers = n
    /\ loop_running = FALSE
    /\ wpc = [w \in 1..n |-> "wait"]
    /\ lpc = "new"
    /\ mc = [t \in 0..n |-> FALSE]
    /\ ev_set = [w \in 1..n |-> FALSE]
    /\ ev_data = [w \in 1..n |-> 0]
    /\ deferred_tasks = <<>>
    /\ reader = [c \in 0..n |-> FALSE]
    /\ db_ev = [c \in 0..n |-> FALSE]
    /\ pending = [c \in 0..n |-> 0]
    /\ loop_errors = {}
    /\ nextId = 1
    /\ executed = <<>>
    /\ co = [s \in Signals |-> [st |-> "new", waits |-> {}]]
    /\ stasks = <<>>
    /\ exit_code = NoExit
    /\ conns = {}
    /\ spawned = {}
    /\ used_by = [c \in 0..n |-> {}]
    /\ blocked = NoConn
    /\ result = [c \in 0..n |-> "None"]
    /\ ret = [t \in 0..n |-> "unset"]

\* the program as its source expects to be run: PG_URI defined, and
\* WORKERS_NUM, which the source never reads, not defined
Init ==
    /\ Boot(NumWorkers)
    /\ env_pg_uri = TRUE
    /\ env_workers_num = [kind |-> "unset"]

\* the same program with a single worker
Init1 ==
    /\ Boot(1)
    /\ env_pg_uri = TRUE
    /\ env_workers_num = [kind |-> "unset"]

\* the program, with a single worker, started in any environment
InitEnv ==
    /\ Boot(1)
    /\ env_pg_uri \in BOOLEAN
    /\ env_workers_num \in WorkersNumValues

\* ----------------------------------------------------------------- startup
\* The module body: exit(1) when PG_URI is not defined; otherwise the
\* listener connection and one connection per worker are opened, the
\* workers and the listener are scheduled and the loop runs.  Each worker's
\* first step only suspends it on its event.
Startup ==
    /\ exit_code = NoExit /\ ~loop_running /\ spawned = {}
    /\ IF PgUriMissing
       THEN /\ exit_code' = 1
            /\ UNCHANGED <<conns, spawned, loop_running>>
       ELSE /\ conns' = Conns
            /\ spawned' = {Listener} \cup Workers
            /\ loop_running' = TRUE
            /\ UNCHANGED exit_code
    /\ UNCHANGED <<nworkers, wpc, lpc, mc, ev_set, ev_data, deferred_tasks,
                   reader, db_ev, pending, loop_errors, nextId, executed,
                   co, stasks, env_pg_uri, env_workers_num, used_by,
                   blocked, result, ret>>

\* ---------------------------------------------------------------- listener
\* catch_notify up to its first suspension: the session is built and
\* db.listen('task') submits LISTEN and suspends in watch(); a driver error
\* ends the task, since only CancelledError is caught.
ListenerStart ==
    /\ loop_running /\ blocked = NoConn /\ lpc = "new"
    /\ used_by' = [used_by EXCEPT ![Listener] = @ \cup {Listener}]
    /\ \E ok \in BOOLEAN :
         IF ok
         THEN /\ lpc' = "listen"
              /\ pending' = [pending EXCEPT ![Listener] = @ + 1]
              /\ reader' = [reader EXCEPT ![Listener] = TRUE]
         ELSE /\ lpc' = "failed"
              /\ UNCHANGED <<pending, reader>>
    /\ UNCHANGED <<nworkers, loop_running, wpc, mc, ev_set, ev_data,
                   deferred_tasks, db_ev, loop_errors, nextId, executed,
                   co, stasks, env_pg_uri, env_workers_num, exit_code,
                   conns, spawned, blocked, result, ret>>

\* LISTEN has completed: watch() clears the event and the listener suspends
\* in its first get_notifications().
ListenerListened ==
    /\ loop_running /\ blocked = NoConn
    /\ lpc = "listen" /\ db_ev[Listener] /\ ~mc[Listener]
    /\ lpc' = "get"
    /\ db_ev' = [db_ev EXCEPT ![Listener] = FALSE]
    /\ reader' = [reader EXCEPT ![Listener] = TRUE]
    /\ ret' = [ret EXCEPT ![Listener] = ExecuteAsyncReturn(result[Listener])]
    /\ UNCHANGED <<nworkers, loop_running, wpc, mc, ev_set, ev_data,
                   deferred_tasks, pending, loop_errors, nextId, executed,
                   co, stasks, env_pg_uri, env_workers_num, exit_code,
                   conns, spawned, used_by, blocked, result>>

\* get_notifications() returns a batch and the for loop hands it out; the
\* listener then suspends in the next get_notifications().
CatchNotify ==
    /\ loop_running /\ blocked = NoConn /\ lpc = "get" /\ ~mc[Listener]
    /\ \E k \in 1..MaxBatch :
         /\ nextId + k - 1 <= MaxNotifs
         /\ LET r == Dispatch(Batch(nextId, k), 1, ev_set, ev_data,
                              deferred_tasks) IN
              /\ ev_set' = r.set
              /\ ev_data' = r.data
              /\ deferred_tasks' = r.deferred
         /\ nextId' = nextId + k
    /\ UNCHANGED <<nworkers, loop_running, wpc, lpc, mc, reader, db_ev,
                   pending, loop_errors, executed, co, stasks, env_pg_uri,
                   env_workers_num, exit_code, conns, spawned, used_by,
                   blocked, result, ret>>

\* get_notifications() fails with a driver error, which catch_notify does
\* not catch.
ListenerFail ==
    /\ loop_running /\ blocked = NoConn /\ lpc = "get" /\ ~mc[Listener]
    /\ lpc' = "failed"
    /\ UNCHANGED <<nworkers, loop_running, wpc, mc, ev_set, ev_data,
                   deferred_tasks, reader, db_ev, pending, loop_errors,
                   nextId, executed, co, stasks, env_pg_uri,
                   env_workers_num, exit_code, conns, spawned, used_by,
                   blocked, result, ret>>

\* CancelledError is thrown into catch_notify at its suspension point.
ListenerCancelled ==
    /\ loop_running /\ blocked = NoConn
    /\ mc[Listener] /\ ~LTerminal /\ lpc # "new"
    /\ lpc' = "cancelled"
    /\ mc' = [mc EXCEPT ![Listener] = FALSE]
    /\ UNCHANGED <<nworkers, loop_running, wpc, ev_set, ev_data,
                   deferred_tasks, reader, db_ev, pending, loop_errors,
                   nextId, executed, co, stasks, env_pg_uri,
                   env_workers_num, exit_code, conns, spawned, used_by,
                   blocked, result, ret>>

\* ------------------------------------------------------------------ worker
\* ev.wait() returns: the session is built on the worker's connection,
\* execute submits the statement, watch() registers the reader and suspends
\* on the completion event.  A failing poll or cursor call ends the task
\* with the driver error.
WorkerStart(w) ==
    /\ loop_running /\ blocked = NoConn
    /\ wpc[w] = "wait" /\ ev_set[w] /\ ~mc[w]
    /\ used_by' = [used_by EXCEPT ![WorkerConn(w)] = @ \cup {w}]
    /\ result' = [result EXCEPT ![WorkerConn(w)] = "None"]
    /\ \E ok \in BOOLEAN :
         IF ok
         THEN /\ wpc' = [wpc EXCEPT ![w] = "exec"]
              /\ pending' = [pending EXCEPT ![WorkerConn(w)] = @ + 1]
              /\ reader' = AddReader(reader, WorkerConn(w))
         ELSE /\ wpc' = [wpc EXCEPT ![w] = "failed"]
              /\ UNCHANGED <<pending, reader>>
    /\ UNCHANGED <<nworkers, loop_running, lpc, mc, ev_set, ev_data,
                   deferred_tasks, db_ev, loop_errors, nextId, executed,
                   co, stasks, env_pg_uri, env_workers_num, exit_code,
                   conns, spawned, blocked, ret>>

\* the completion event is set: watch() clears it, execute returns, the
\* worker clears its own event, pops the head of deferred_tasks and waits
\* again.
WorkerFinish(w) ==
    /\ loop_running /\ blocked = NoConn
    /\ wpc[w] = "exec" /\ db_ev[w] /\ ~mc[w]
    /\ db_ev' = [db_ev EXCEPT ![w] = FALSE]
    /\ ret' = [ret EXCEPT ![w] = ExecuteAsyncReturn(result[w])]
    /\ executed' = Append(executed, ev_data[w])
    /\ ev_set' = [ev_set EXCEPT ![w] = FALSE]
    /\ deferred_tasks' = Pop0(deferred_tasks)
    /\ wpc' = [wpc EXCEPT ![w] = "wait"]
    /\ UNCHANGED <<nworkers, loop_running, lpc, mc, ev_data, reader,
                   pending, loop_errors, nextId, co, stasks, env_pg_uri,
                   env_workers_num, exit_code, conns, spawned, used_by,
                   blocked, result>>

\* CancelledError is thrown into worker at its suspension point, either
\* ev.wait() or the completion event inside execute; __exit__ does nothing.
WorkerCancelled(w) ==
    /\ loop_running /\ blocked = NoConn
    /\ mc[w] /\ ~WTerminal(w)
    /\ wpc' = [wpc EXCEPT ![w] = "cancelled"]
    /\ mc' = [mc EXCEPT ![w] = FALSE]
    /\ UNCHANGED <<nworkers, loop_running, lpc, ev_set, ev_data,
                   deferred_tasks, reader, db_ev, pending, loop_errors,
                   nextId, executed, co, stasks, env_pg_uri,
                   env_workers_num, exit_code, conns, spawned, used_by,
                   blocked, result, ret>>

\* ------------------------------------------------- the readiness callback
\* poll() returned POLL_OK: the result is read, the reader removed and the
\* completion event set.
CallbackOk(c) ==
    /\ pending' = [pending EXCEPT ![c] = @ - 1]
    /\ result' = [result EXCEPT ![c] = Retrieve(RetrieveMethod(WantRows(c)))]
    /\ reader' = RemoveReader(reader, c)
    /\ db_ev' = SetEvent(db_ev, c)
    /\ UNCHANGED loop_errors

\* poll() or the cursor call raised: the exception leaves the callback and
\* ends in the loop's exception handler.
CallbackErr(c) ==
    /\ loop_errors' = loop_errors \cup {c}
    /\ UNCHANGED <<pending, result, reader, db_ev>>

\* __cursor_retrieve_async is called because the fd is readable; wait()
\* polls the connection.  On POLL_READ or POLL_WRITE wait() calls
\* select.select without a timeout: the loop thread stays inside the
\* callback.
Readable(c) ==
    /\ loop_running /\ blocked = NoConn
    /\ reader[c] /\ pending[c] > 0 /\ c \notin loop_errors
    /\ \E poll \in {"OK", "WAIT", "ERR"} :
         IF poll = "OK" THEN CallbackOk(c) /\ UNCHANGED blocked
         ELSE IF poll = "ERR" THEN CallbackErr(c) /\ UNCHANGED blocked
         ELSE /\ blocked' = c
              /\ UNCHANGED <<pending, result, reader, db_ev, loop_errors>>
    /\ UNCHANGED <<nworkers, loop_running, wpc, lpc, mc, ev_set, ev_data,
                   deferred_tasks, nextId, executed, co, stasks,
                   env_pg_uri, env_workers_num, exit_code, conns, spawned,
                   used_by, ret>>

\* select.select returns inside wait() and the next poll() ends the loop of
\* wait(), with POLL_OK or with an error (a poll() that asks for more I/O
\* leaves the thread in select and the state unchanged).
SelectReturn(c) ==
    /\ loop_running /\ blocked = c
    /\ blocked' = NoConn
    /\ \E ok \in BOOLEAN : IF ok THEN CallbackOk(c) ELSE CallbackErr(c)
    /\ UNCHANGED <<nworkers, loop_running, wpc, lpc, mc, ev_set, ev_data,
                   deferred_tasks, nextId, executed, co, stasks,
                   env_pg_uri, env_workers_num, exit_code, conns, spawned,
                   used_by, ret>>

\* ------------------------------------------------------------ signals, stop
\* The handler installed for a signal is partial(ensure_future, stop()):
\* every delivery of that signal wraps the same coroutine object, created
\* once at installation, in a new task.
Signal(sig) ==
    /\ loop_running /\ blocked = NoConn
    /\ lpc # "new" /\ Len(stasks) < MaxSignals
    /\ stasks' = Append(stasks, [sig |-> sig, st |-> "new", mc |-> FALSE])
    /\ UNCHANGED <<nworkers, loop_running, wpc, lpc, mc, ev_set, ev_data,
                   deferred_tasks, reader, db_ev, pending, loop_errors,
                   nextId, executed, co, env_pg_uri, env_workers_num,
                   exit_code, conns, spawned, used_by, blocked, result, ret>>

\* the future returned by asyncio.gather(*tasks) is done
GatherDone(sig) == \A t \in co[sig].waits : Terminal(t)

\* t.cancel() for every task of ts: a task that has not finished gets a
\* pending cancellation.  Cancelling a task that waits on a gather future
\* cancels that future; a build whose gather(return_exceptions=True)
\* swallows the cancellation while a child is still running leaves the
\* tasks of sw without a pending cancellation.
CancelStops(ts, sw) ==
    [j \in DOMAIN stasks |->
        IF -j \in ts /\ ~STerminal(j) /\ j \notin sw
        THEN [stasks[j] EXCEPT !.mc = TRUE]
        ELSE stasks[j]]
CancelTasks(ts) ==
    [t \in DOMAIN mc |-> IF t \in ts /\ ~Terminal(t) THEN TRUE ELSE mc[t]]

\* the stop tasks whose cancellation may be swallowed
Swallowable(ts) ==
    {j \in DOMAIN stasks :
        /\ -j \in ts
        /\ stasks[j].st = "waiting"
        /\ ~GatherDone(stasks[j].sig)}

\* [t for t in all_tasks() if t is not current_task()], for stop task k
OtherTasksAll(k) == AllTasks
OtherTasks(k) == AllTasks \ {-k}

\* One step of the k-th stop task.
\*   pending cancellation: CancelledError is thrown into the coroutine
\*     object, which ends it whatever task it was suspended for;
\*   coroutine not started: lines 59-65, suspend on gather;
\*   coroutine suspended on a gather that is done: loop.stop(), after
\*     which run_forever returns and the process ends;
\*   coroutine suspended on a gather that is not done (a second task
\*     wrapping the same coroutine sends to it): the future is yielded
\*     again and this task waits on it too, or the future's iterator
\*     raises and ends the coroutine, depending on the build;
\*   coroutine finished: "cannot reuse already awaited coroutine".
StopStep(k) ==
    LET T == stasks[k]
        c == co[T.sig]
        others == OtherTasks(k)
    IN
    /\ loop_running /\ blocked = NoConn
    /\ \/ T.st = "new"
       \/ T.st = "waiting" /\ GatherDone(T.sig)
    /\ IF T.mc
       THEN /\ co' = [co EXCEPT ![T.sig].st = "closed"]
            /\ stasks' = [stasks EXCEPT ![k].st = "cancelled", ![k].mc = FALSE]
            /\ UNCHANGED <<mc, loop_running, exit_code>>
       ELSE IF c.st = "new"
       THEN /\ \E sw \in SUBSET Swallowable(others) :
                 stasks' = [CancelStops(others, sw) EXCEPT ![k].st = "waiting"]
            /\ mc' = CancelTasks(others)
            /\ co' = [co EXCEPT ![T.sig] = [st |-> "gather", waits |-> others]]
            /\ UNCHANGED <<loop_running, exit_code>>
       ELSE IF c.st = "gather" /\ GatherDone(T.sig)
       THEN /\ loop_running' = FALSE
            /\ exit_code' = 0
            /\ co' = [co EXCEPT ![T.sig].st = "closed"]
            /\ stasks' = [stasks EXCEPT ![k].st = "done"]
            /\ UNCHANGED mc
       ELSE IF c.st = "gather"
       THEN /\ \/ /\ stasks' = [stasks EXCEPT ![k].st = "waiting"]
                  /\ UNCHANGED co
               \/ /\ stasks' = [stasks EXCEPT ![k].st = "failed"]
                  /\ co' = [co EXCEPT ![T.sig].st = "closed"]
            /\ UNCHANGED <<mc, loop_running, exit_code>>
       ELSE /\ stasks' = [stasks EXCEPT ![k].st = "failed"]
            /\ UNCHANGED <<mc, loop_running, co, exit_code>>
    /\ UNCHANGED <<nworkers, wpc, lpc, ev_set, ev_data, deferred_tasks,
                   reader, db_ev, pending, loop_errors, nextId, executed,
                   env_pg_uri, env_workers_num, conns, spawned, used_by,
                   blocked, result, ret>>

Next ==
    \/ Startup
    \/ ListenerStart
    \/ ListenerListened
    \/ CatchNotify
    \/ ListenerFail
    \/ ListenerCancelled
    \/ \E w \in Workers : WorkerStart(w)
    \/ \E w \in Workers : WorkerFinish(w)
    \/ \E w \in Workers : WorkerCancelled(w)
    \/ \E c \in Conns : Readable(c)
    \/ \E c \in Conns : SelectReturn(c)
    \/ \E sig \in Signals : Signal(sig)
    \/ \E k \in DOMAIN stasks : StopStep(k)

Spec == Init /\ [][Next]_vars

\* the dispatcher with exactly one worker
Spec1 == Init1 /\ [][Next]_vars

\* the dispatcher with one worker, started in any environment
SpecEnv == InitEnv /\ [][Next]_vars

\* ================================================================== claims

\* no shutdown, no driver error, and nothing left to do: the listener waits
\* for notifications and every worker waits on its cleared event
Quiescent ==
    /\ loop_running /\ stasks = <<>> /\ loop_errors = {}
    /\ lpc = "get"
    /\ \A w \in Workers : wpc[w] = "wait" /\ ~ev_set[w]

\* C1: once the system is quiescent, every notification the listener has
\* received was either executed exactly once and is not in the backlog, or
\* was not executed and is accounted for (the code keeps no drop counter:
\* the only account of an unexecuted notification is its backlog entry).
C1_ExactlyOnceOrAccounted ==
    Quiescent =>
        \A n \in 1..(nextId - 1) :
            \/ Count(executed, n) = 1 /\ n \notin Range(deferred_tasks)
            \/ Count(executed, n) = 0 /\ n \in Range(deferred_tasks)

\* C2: no connection ever has two statements in flight, and the
\* notification handed to a worker is not replaced by another one while
\* that worker's event is still set.
C2_SingleFlight ==
    /\ [](\A c \in Conns : pending[c] <= 1)
    /\ [][\A w \in Workers : ev_set[w] => ev_data'[w] = ev_data[w]]_vars

\* C2 witness: a worker is inside its execute while a later notification
\* has found every worker busy.
C2_Witness ==
    \E w \in Workers :
        wpc[w] = "exec" /\ pending[w] = 1 /\ deferred_tasks # <<>>

\* C3: once a signal has been received and every task has reached a
\* terminal state, the event loop has been stopped.
C3_ShutdownStopsLoop ==
    (stasks # <<>> /\ \A t \in AllTasks : Terminal(t)) => ~loop_running

C5_ErrorStartsShutdown ==
    (\/ \E w \in Workers : wpc[w] = "failed"
     \/ lpc = "failed"
     \/ loop_errors # {})
    => (stasks # <<>> \/ ~loop_running)

\* the task that owns connection c is suspended inside execute
InExecute(c) == IF c = Listener THEN lpc = "listen" ELSE wpc[c] = "exec"

\* C6: after a driver error in the readiness callback of a connection, the
\* task that submitted the statement is not left suspended in execute with
\* the reader still registered.
C6_CallbackErrorResumesTask ==
    \A c \in loop_errors : ~(InExecute(c) /\ reader[c])

\* C7: a worker that was cancelled with a statement in flight has left its
\* session closed and without a registered reader.
C7_CancelClosesSession ==
    \A w \in Workers :
        (wpc[w] = "cancelled" /\ pending[w] > 0)
        => (conn_closed(w) /\ ~reader[w])

\* C8: a signal received while a shutdown is in progress stops the event
\* loop at once.
C8_SecondSignalStopsNow ==
    [][(stasks # <<>> /\ Len(stasks') > Len(stasks)) => ~loop_running']_vars

\* C9: the backlog holds the waiting notifications in arrival order.
C9_BacklogInArrivalOrder ==
    \A i, j \in DOMAIN deferred_tasks :
        i < j => deferred_tasks[i] < deferred_tasks[j]

\* C10: with one worker, the notifications executed so far are the first
\* notifications received, in arrival order, none skipped.
C10_SingleWorkerFifo ==
    nworkers = 1 => \A i \in DOMAIN executed : executed[i] = i

\* the module body has opened the connections and scheduled the tasks
Booted == spawned # {}

C12_BatchToDistinctWorkers ==
    [][(/\ nextId' >= nextId + 2
        /\ Cardinality({w \in Workers : ~ev_set[w]}) >= 2)
       => \E w1, w2 \in Workers :
            /\ w1 # w2
            /\ ~ev_set[w1] /\ ~ev_set[w2]
            /\ ev_set'[w1] /\ ev_set'[w2]
            /\ ev_data'[w1] = nextId /\ ev_data'[w2] = nextId + 1]_vars

\* C12 witness: two workers are inside their execute at the same time, on
\* consecutive notifications.
C12_Witness ==
    \E w1, w2 \in Workers :
        /\ w1 # w2
        /\ wpc[w1] = "exec" /\ wpc[w2] = "exec"
        /\ pending[w1] = 1 /\ pending[w2] = 1
        /\ ev_data[w2] = ev_data[w1] + 1

\* C13: the value a worker's awaited execute returned is the statement's
\* result: the row set, since the worker asks for rows.
C13_ExecuteReturnsResult ==
    \A w \in Workers :
        ret[w] # "unset" => ret[w] = Retrieve(RetrieveMethod(WantRows(w)))

\* PG_URI is not defined, or WORKERS_NUM is not defined or not an integer
ConfigMissing == ~env_pg_uri \/ env_workers_num.kind # "int"

C15_BacklogGrowsByUndispatched ==
    [][nextId' > nextId =>
        LET idle == Cardinality({w \in Workers : ~ev_set[w]})
            k == nextId' - nextId
            und == [i \in 1..(IF k > idle THEN k - idle ELSE 0) |->
                        nextId + idle + i - 1]
        IN deferred_tasks' = deferred_tasks \o und]_vars

\* C16: a readiness callback returns to the scheduler after one poll(): the
\* loop thread is never left waiting for a socket inside a callback.
C16_CallbackNeverBlocks == blocked = NoConn

\* C17: an execute is only submitted on a connection with no statement in
\* flight, no reader registered and a clear completion event; and when a
\* worker's execute returns, its connection is in that state again.
C17_IdleRoundTrip ==
    /\ [][\A c \in Conns :
            pending'[c] > pending[c]
            => (pending[c] = 0 /\ ~reader[c] /\ ~db_ev[c])]_vars
    /\ [][\A w \in Workers :
            (wpc[w] = "exec" /\ wpc'[w] = "wait")
            => (pending'[w] = 0 /\ ~reader'[w] /\ ~db_ev'[w])]_vars

\* C17 witness: a worker whose earlier execute has returned is inside its
\* next execute.
C17_Witness ==
    \E w \in Workers :
        ret[w] # "unset" /\ wpc[w] = "exec" /\ pending[w] = 1 /\ reader[w]

\* C18: the step that calls loop.stop() finds every task its coroutine
\* cancelled, the listener and every worker among them, finished; and the
\* first step of a stop task puts a cancellation on the listener and on
\* every worker still running, waits for all of them, and neither cancels
\* nor waits for itself.
C18_StopAfterAllCancelled ==
    /\ [][(loop_running /\ ~loop_running') =>
            /\ \A t \in Conns : Terminal(t)
            /\ \E k \in DOMAIN stasks :
                 /\ stasks[k].st # "done" /\ stasks'[k].st = "done"
                 /\ \A t \in co[stasks[k].sig].waits : Terminal(t)]_vars
    /\ [][\A k \in DOMAIN stasks :
            (/\ stasks[k].st = "new" /\ stasks'[k].st = "waiting"
             /\ co[stasks[k].sig].st = "new")
            => /\ -k \notin co'[stasks[k].sig].waits
               /\ ~stasks'[k].mc
               /\ Conns \subseteq co'[stasks[k].sig].waits
               /\ \A t \in Conns : ~Terminal(t) => mc'[t]]_vars

\* C18 witness: the loop has been stopped after a worker was cancelled.
C18_Witness ==
    /\ exit_code = 0 /\ ~loop_running
    /\ \E w \in Workers : wpc[w] = "cancelled"

\* C19: ev.data of a worker changes only in a step that finds the worker's
\* event clear and sets it, and the notification held by a set event has
\* not been executed yet.
C19_DataStableWhileSet ==
    /\ [][\A w \in Workers :
            ev_data'[w] # ev_data[w] => (~ev_set[w] /\ ev_set'[w])]_vars
    /\ [](\A w \in Workers :
            ev_set[w] => ev_data[w] \notin Range(executed))

\* C19 witness: a worker that has executed before is executing a newer
\* assignment while later notifications have arrived.
C19_Witness ==
    \E w \in Workers :
        /\ ev_set[w] /\ wpc[w] = "exec" /\ ret[w] # "unset"
        /\ nextId > ev_data[w] + 1

\* a shutdown has begun or a driver error has occurred
Trouble ==
    \/ stasks # <<>>
    \/ loop_errors # {}
    \/ lpc = "failed"
    \/ \E w \in Workers : wpc[w] = "failed"

\* The loop runs every task that is ready and every callback whose fd is
\* ready, and the server answers every submitted statement.
Fairness ==
    /\ WF_vars(WorkerStart(1))
    /\ WF_vars(WorkerFinish(1))
    /\ \A c \in 0..1 : WF_vars(Readable(c))
    /\ \A c \in 0..1 : WF_vars(SelectReturn(c))

\* the dispatcher with one worker, under a fair loop and a server that
\* answers
SpecLive == Init1 /\ [][Next]_vars /\ Fairness

\* C20: without shutdown and driver errors, a worker whose event is set
\* eventually clears it.
C20_BusyWorkerFinishes == ev_set[1] ~> (~ev_set[1] \/ Trouble)

\* C20 witness: a worker has executed the notification it was handed and
\* cleared its event, with no shutdown and no driver error.
C20_Witness ==
    /\ ~Trouble
    /\ \E w \in Workers :
        ~ev_set[w] /\ ev_data[w] # 0 /\ ev_data[w] \in Range(executed)

====
